---------------------------- MODULE Spec2Model ----------------------------
(***************************************************************************)
(* MQ3 breathalyzer firmware (src/main.py): the sensor pipeline            *)
(* (MQ3Sensor), the button bookkeeping (Hardware.check_button) and the     *)
(* control loop (main), with the driver of src/test_sensor.py as a second  *)
(* way of calling the sensor.                                              *)
(*                                                                         *)
(* Time.  `now` is real time in ticks of 0.1 s, the period of the control  *)
(* loop and of the calibration loop.  utime.time() on the ESP32 port of    *)
(* MicroPython (the only port with ADC.ATTN_11DB) returns whole seconds,   *)
(* so every time the program stores is now \div TicksPerSecond.            *)
(*                                                                         *)
(* Numbers.  Floats are fixed point.  A resistance Rs is held in 1/Scale    *)
(* ohm.  calibrate() divides by AIR_R0_RATIO and then by                   *)
(* NUM_CALIBRATION_READINGS; so that neither division rounds, r0_sum is    *)
(* held in 1/(Scale * AIR_R0_RATIO) ohm and r0 in 1/R0Scale ohm, R0Scale = *)
(* Scale * AIR_R0_RATIO * NUM_CALIBRATION_READINGS: the divisions change   *)
(* the unit and keep the number.  Concentrations are held in 1/ConcScale   *)
(* mg/L, and math.pow is computed in base-2 logarithms with LogBits        *)
(* fractional bits.                                                        *)
(***************************************************************************)
EXTENDS Integers, Sequences, FiniteSets, TLC

VARIABLES
    now,                \* real time, ticks of 0.1 s
    pc,                 \* position of the running code
    ret,                \* who called the sensor: "toggle", "recalibrate" (main), "driver"
    state,              \* main: state
    button_press_time,  \* Hardware.button_press_time (seconds, 0 = not pressed)
    last_reading_time,  \* main: last_reading_time (seconds)
    button_down,        \* Hardware.button_pressed() as read by the last poll
    press_duration,     \* main: button_press_duration of the last poll
    r0,                 \* MQ3Sensor.r0
    r0_sum,             \* calibrate: r0_sum
    cal_i,              \* calibrate: samples taken so far in this run
    warm_i,             \* warm_up: loop index
    readings,           \* MQ3Sensor.readings
    raw_alcohol,        \* main: the last value get_smoothed_reading returned
    display,            \* the message the display shows (last display_message)
    mock_readings,      \* the analog source: the samples it delivers, cyclically
    reading_index,      \* the analog source: index of the next sample
    pushed,             \* history: every concentration appended to readings
    io_kind,            \* history: the last analog read or display write
    io_state,           \* history: `state` at the moment of that read or write
    button,             \* the button pin: TRUE while the button is down
    phys_hold,          \* history: ticks the current press has been down (capped)
    merged,             \* history: the button went down again before the release was polled
    press_toggles,      \* history: OFF/ON toggles since the current press was first polled
    press_cals,         \* history: calibrate() runs started since then
    cal_runs,           \* history: calibrate() runs completed
    cal_at,             \* history: Len(pushed) when the last calibrate() run began
    cal_samples,        \* history: the samples the last calibrate() run has read
    press_state,        \* history: `state` when the current press was first polled
    hold_start          \* history: the clock at the first poll that saw the button held

vars == <<now, pc, ret, state, button_press_time, last_reading_time, button_down,
          press_duration, r0, r0_sum, cal_i, warm_i, readings, raw_alcohol,
          display, mock_readings, reading_index, pushed, io_kind, io_state,
          button, phys_hold, merged, press_toggles, press_cals, cal_runs,
          cal_at, cal_samples, press_state, hold_start>>

----------------------------------------------------------------------------
(* config.py and the literals of the code *)

AIR_R0_RATIO == 60
WARM_UP_TIME == 20
NUM_CALIBRATION_READINGS == 10
LONG_PRESS_TIME == 3
max_readings == 10
reading_interval == 1
MAX_ADC == 4095
LOAD_OHMS == 1000

OFF == 0
ON == 1
CALIBRATING == 2

\* ticks of `now` in utime.sleep(1), and the sleeps of the code in ticks
TicksPerSecond == 10
SleepPoll == 1
SleepSample == 1
SleepToggle == TicksPerSecond
SleepWarm == TicksPerSecond
SleepCalDone == 2 * TicksPerSecond

\* fixed point
Scale == 100
R0Scale == Scale * AIR_R0_RATIO * NUM_CALIBRATION_READINGS
ConcScale == 1000000
LogBits == 10

----------------------------------------------------------------------------
(* bounds of the model *)

MaxTime == 340
\* `now` when main starts: the clock of the ESP32 counts from 0 at power-on
StartTime == 0
MaxPushes == 12
MaxCalRuns == 2

----------------------------------------------------------------------------
(* utime.time(): whole seconds *)
Time(t) == t \div TicksPerSecond

(* display_message(message): the text, and how often it is repeated ("." * i) *)
Message(text) == [text |-> text, reps |-> 1, value |-> 0]
Dots(i) == [text |-> ".", reps |-> i, value |-> 0]
Reading(text, v) == [text |-> text, reps |-> 1, value |-> v]
Blank == [text |-> "", reps |-> 0, value |-> 0]

----------------------------------------------------------------------------
(* fixed-point arithmetic for math.pow *)

RECURSIVE Pow2(_)
Pow2(n) == IF n = 0 THEN 1 ELSE 2 * Pow2(n - 1)

One == Pow2(14)

RECURSIVE FloorLog2(_)
FloorLog2(n) == IF n < 2 THEN 0 ELSE 1 + FloorLog2(n \div 2)

\* n scaled into [One, 2*One)
Mantissa(n) ==
    LET k == FloorLog2(n)
    IN  IF k >= 14 THEN n \div Pow2(k - 14) ELSE n * Pow2(14 - k)

\* the fractional bits of log2(m / One), m in [One, 2*One), `bits` of them
RECURSIVE FracLog2(_, _)
FracLog2(m, bits) ==
    IF bits = 0 THEN 0
    ELSE LET sq == (m * m) \div One
         IN  IF sq >= 2 * One
             THEN Pow2(bits - 1) + FracLog2(sq \div 2, bits - 1)
             ELSE FracLog2(sq, bits - 1)

\* log2(n) in units of 2^-LogBits, n >= 1
Log2(n) == FloorLog2(n) * Pow2(LogBits) + FracLog2(Mantissa(n), LogBits)

\* 2^(2^-j) * One, j = 1 .. LogBits
Roots == <<23170, 19484, 17867, 17109, 16743, 16562, 16473, 16428, 16406, 16395>>

\* 2^(f / 2^LogBits) * One for 0 <= f < 2^LogBits, from bit j on
RECURSIVE FracExp2(_, _)
FracExp2(f, j) ==
    IF j > LogBits THEN One
    ELSE LET rest == FracExp2(f, j + 1)
         IN  IF (f \div Pow2(LogBits - j)) % 2 = 1
             THEN (rest * Roots[j]) \div One
             ELSE rest

\* 0.4 * 2^(e / 2^LogBits) in 1/ConcScale: 0.4 * ConcScale = 3125 * 2^7
PowTimes04(e) ==
    LET ei == e \div Pow2(LogBits)
        m  == FracExp2(e % Pow2(LogBits), 1) * ((4 * ConcScale) \div (10 * Pow2(7)))
    IN  IF ei >= 7 THEN m * Pow2(ei - 7) ELSE m \div Pow2(7 - ei)

----------------------------------------------------------------------------
(* MQ3Sensor *)

\* mutant: the load resistance is not subtracted
calculate_rs_no_load(s) == (Scale * LOAD_OHMS * MAX_ADC) \div s

\* _calculate_rs on sample s > 0: (3.3 * 1000 / (s * 3.3 / 4095)) - 1000
calculate_rs(s) == (Scale * LOAD_OHMS * (MAX_ADC - s)) \div s

\* _calculate_rs raises ZeroDivisionError when the voltage is 0
rs_faults(s) == s = 0

\* read_raw_value_of_alcohol faults: in _calculate_rs, or in math.pow(0.0, -1.43068)
raw_faults(s, r) == rs_faults(s) \/ (r # 0 /\ calculate_rs(s) = 0)

\* log2(rs / r0) in units of 2^-LogBits, rs in 1/Scale ohm, r in 1/R0Scale ohm
log2_ratio(rs, r) == Log2(rs) + Log2(R0Scale \div Scale) - Log2(r)

\* read_raw_value_of_alcohol on a sample it does not fault on:
\* 0.4 * math.pow(rs / r0, -1.43068), and 0 when r0 == 0
read_raw_value_of_alcohol(s, r) ==
    IF r = 0 THEN 0
    ELSE PowTimes04(-((log2_ratio(calculate_rs(s), r) * 35767) \div 25000))

RECURSIVE Sum(_)
Sum(w) == IF w = <<>> THEN 0 ELSE Head(w) + Sum(Tail(w))

\* mutant: pop() for pop(0), the newest value is evicted
push_pops_newest(w, raw) ==
    LET a == Append(w, raw)
    IN  IF Len(a) > max_readings THEN SubSeq(a, 1, max_readings) ELSE a

\* get_smoothed_reading: the window after append and pop(0)
push(w, raw) ==
    LET a == Append(w, raw)
    IN  IF Len(a) > max_readings THEN Tail(a) ELSE a

\* get_smoothed_reading: sum(readings) / len(readings)
average(w) == Sum(w) \div Len(w)

\* mutant: the mean is taken before the oldest value is evicted
smoothed_before_pop(w, raw) == average(Append(w, raw))

\* get_smoothed_reading: what it returns when it appends raw to the window w
smoothed(w, raw) == average(push(w, raw))

\* mutant: the share is subtracted from r0_sum
ratioed_negated(rs) == 0 - rs

\* calibrate: a sample's share of r0_sum, rs / AIR_R0_RATIO (in the unit of r0_sum)
ratioed(rs) == rs

\* mutant: r0_sum is stored without the division by NUM_CALIBRATION_READINGS
mean_r0_undivided(sum) == sum * NUM_CALIBRATION_READINGS

\* calibrate: r0_sum / NUM_CALIBRATION_READINGS (in the unit of r0)
mean_r0(sum) == sum

convert_raw_to_bac(raw) == raw \div 5
convert_raw_to_gram_per_millilitre(raw) == raw \div 500
convert_raw_to_ppm(raw) == raw * 500

\* mq3_pin.read(): the next sample of the source
mq3_pin_read == mock_readings[reading_index]
next_index == (reading_index % Len(mock_readings)) + 1

\* the sample the last mq3_pin.read() delivered
last_read ==
    mock_readings[((reading_index + Len(mock_readings) - 2) % Len(mock_readings)) + 1]

----------------------------------------------------------------------------
(* Hardware.check_button: the press time it leaves, and the duration it     *)
(* returns, when the pin reads b at clock time t with press time bpt        *)

check_button_time(b, bpt, t) ==
    IF b THEN (IF bpt = 0 THEN t ELSE bpt) ELSE 0

check_button(b, bpt, t) ==
    IF b THEN t - check_button_time(b, bpt, t)
    ELSE IF bpt > 0 THEN t - bpt ELSE 0

----------------------------------------------------------------------------
(* the environment: time passes in utime.sleep, the button goes down and up *)

HoldCap == LONG_PRESS_TIME * TicksPerSecond

Min(a, b) == IF a < b THEN a ELSE b

\* the hold of a press is forgotten once the button is up and the program has
\* polled the release
sleep(k) ==
    /\ now' = now + k
    /\ phys_hold' = IF button THEN Min(phys_hold + k, HoldCap)
                    ELSE IF button_press_time = 0 /\ pc = "sample" THEN 0
                    ELSE phys_hold

no_sleep == UNCHANGED <<now, phys_hold>>

main_vars == <<state, button_press_time, last_reading_time, button_down,
               press_duration, press_toggles, press_cals, press_state,
               hold_start>>

sensor_vars == <<r0, r0_sum, cal_i, warm_i, readings, raw_alcohol, mock_readings,
                 reading_index, pushed, cal_runs, cal_at, cal_samples>>

io_vars == <<display, io_kind, io_state>>

ButtonDown ==
    /\ ~button
    /\ pc \notin {"fault", "idle"}
    /\ button' = TRUE
    /\ phys_hold' = 0
    /\ merged' = (button_press_time # 0 \/ pc \notin {"poll", "sample"})
    /\ UNCHANGED <<now, pc, ret>>
    /\ UNCHANGED <<main_vars, sensor_vars, io_vars>>

ButtonUp ==
    /\ button
    /\ pc \notin {"fault", "idle"}
    /\ button' = FALSE
    /\ UNCHANGED <<now, pc, ret, phys_hold, merged>>
    /\ UNCHANGED <<main_vars, sensor_vars, io_vars>>

----------------------------------------------------------------------------
(* MQ3Sensor.get_smoothed_reading (lines 113-119): the read faults, or the  *)
(* window and the returned value change and the caller goes on at `done`    *)

get_smoothed_reading(done) ==
    /\ reading_index' = next_index
    /\ IF raw_faults(mq3_pin_read, r0)
       THEN /\ pc' = "fault"
            /\ UNCHANGED <<readings, pushed, raw_alcohol>>
       ELSE LET raw == read_raw_value_of_alcohol(mq3_pin_read, r0)
            IN  /\ readings' = push(readings, raw)
                /\ pushed' = Append(pushed, raw)
                /\ raw_alcohol' = smoothed(readings, raw)
                /\ pc' = done
    /\ UNCHANGED <<r0, r0_sum, cal_i, warm_i, mock_readings, cal_runs, cal_at,
                   cal_samples>>

----------------------------------------------------------------------------
(* main: one poll of the button and the gesture it starts (lines 170-186)   *)

long_press(d) == d >= LONG_PRESS_TIME

\* mutant: the short-press branch does not ask for state == ON
short_press_in_any_state(st, d) == d < LONG_PRESS_TIME

short_press(st, d) == st = ON /\ d < LONG_PRESS_TIME

Poll ==
    /\ pc = "poll"
    /\ now < MaxTime
    /\ LET t    == Time(now)
           d    == check_button(button, button_press_time, t)
           new  == button /\ button_press_time = 0
           togs == IF new THEN 0 ELSE press_toggles
           cals == IF new THEN 0 ELSE press_cals
       IN  /\ button_press_time' = check_button_time(button, button_press_time, t)
           /\ button_down' = button
           /\ press_duration' = d
           /\ merged' = (merged /\ ~new)
           /\ press_state' = IF new THEN state ELSE press_state
           /\ hold_start' = IF button /\ ~button_down THEN t ELSE hold_start
           /\ IF d > 0 /\ long_press(d)
              THEN /\ state' = IF state = OFF THEN ON ELSE OFF
                   /\ pc' = IF state = OFF THEN "warm_up" ELSE "toggled"
                   /\ ret' = "toggle"
                   /\ press_toggles' = togs + 1
                   /\ press_cals' = cals
              ELSE IF d > 0 /\ short_press(state, d)
              THEN /\ state' = CALIBRATING
                   /\ pc' = "calibrate"
                   /\ ret' = "recalibrate"
                   /\ press_toggles' = togs
                   /\ press_cals' = cals + 1
              ELSE /\ state' = state
                   /\ pc' = "sample"
                   /\ ret' = ret
                   /\ press_toggles' = togs
                   /\ press_cals' = cals
    /\ no_sleep
    /\ UNCHANGED <<last_reading_time, button>>
    /\ UNCHANGED <<sensor_vars, io_vars>>

\* mutant: turning the device OFF forgets the calibration
Toggled_forgets_r0 ==
    /\ pc = "toggled"
    /\ display' = Message(IF state = ON THEN "ON" ELSE "OFF")
    /\ io_kind' = "toggle"
    /\ io_state' = state
    /\ sleep(SleepToggle)
    /\ pc' = "sample"
    /\ r0' = IF state = OFF THEN R0Scale ELSE r0
    /\ UNCHANGED <<ret, button, merged>>
    /\ UNCHANGED main_vars
    /\ UNCHANGED <<r0_sum, cal_i, warm_i, readings, raw_alcohol, mock_readings,
                   reading_index, pushed, cal_runs, cal_at, cal_samples>>

(* main: lines 181-182, after either toggle *)
Toggled ==
    /\ pc = "toggled"
    /\ display' = Message(IF state = ON THEN "ON" ELSE "OFF")
    /\ io_kind' = "toggle"
    /\ io_state' = state
    /\ sleep(SleepToggle)
    /\ pc' = "sample"
    /\ UNCHANGED <<ret, button, merged>>
    /\ UNCHANGED <<main_vars, sensor_vars>>

\* mutant: the state is not set back after the recalibration
recalibrated_state_stale == CALIBRATING

(* main: line 186, after the recalibration of a short press *)
recalibrated_state == ON

Recalibrated ==
    /\ pc = "recalibrated"
    /\ state' = recalibrated_state
    /\ pc' = "sample"
    /\ no_sleep
    /\ UNCHANGED <<ret, button_press_time, last_reading_time, button_down,
                   press_duration, button, merged, press_toggles, press_cals,
                   press_state, hold_start>>
    /\ UNCHANGED <<sensor_vars, io_vars>>

\* mutant: the tick does not ask for state == ON
tick_due_always(st, t, last) == t - last >= reading_interval

\* mutant: the tick does not wait for reading_interval
tick_due_every_cycle(st, t, last) == st = ON

(* main: lines 188-205, the sampling tick and the sleep that ends the cycle *)
tick_due(st, t, last) == st = ON /\ t - last >= reading_interval

Sample ==
    /\ pc = "sample"
    /\ IF tick_due(state, Time(now), last_reading_time)
       THEN /\ get_smoothed_reading("poll")
            /\ io_kind' = "tick"
            /\ io_state' = state
            /\ IF raw_faults(mq3_pin_read, r0)
               THEN /\ no_sleep
                    /\ UNCHANGED <<display, last_reading_time>>
               ELSE /\ display' = Reading("g/mL",
                            convert_raw_to_gram_per_millilitre(raw_alcohol'))
                    /\ last_reading_time' = Time(now)
                    /\ sleep(SleepPoll)
       ELSE /\ pc' = "poll"
            /\ sleep(SleepPoll)
            /\ UNCHANGED <<last_reading_time>>
            /\ UNCHANGED <<sensor_vars, io_vars>>
    /\ UNCHANGED <<ret, state, button_press_time, button_down, press_duration,
                   button, merged, press_toggles, press_cals, press_state,
                   hold_start>>

----------------------------------------------------------------------------
(* MQ3Sensor.warm_up (lines 76-85) *)

WarmUpBegin ==
    /\ pc = "warm_up"
    /\ display' = Message("Warming up...")
    /\ io_kind' = "warm_up"
    /\ io_state' = state
    /\ warm_i' = 0
    /\ pc' = "warm_loop"
    /\ no_sleep
    /\ UNCHANGED <<ret, button, merged>>
    /\ UNCHANGED main_vars
    /\ UNCHANGED <<r0, r0_sum, cal_i, readings, raw_alcohol, mock_readings,
                   reading_index, pushed, cal_runs, cal_at, cal_samples>>

\* mutant: warm_up() returns without calling calibrate()
WarmUpLoop_without_calibrate ==
    /\ pc = "warm_loop"
    /\ IF warm_i < WARM_UP_TIME
       THEN /\ display' = Dots(warm_i)
            /\ io_kind' = "warm_up"
            /\ io_state' = state
            /\ warm_i' = warm_i + 1
            /\ sleep(SleepWarm)
            /\ pc' = pc
       ELSE /\ pc' = (IF ret = "toggle" THEN "toggled" ELSE "idle")
            /\ no_sleep
            /\ UNCHANGED <<display, io_kind, io_state, warm_i>>
    /\ UNCHANGED <<ret, button, merged>>
    /\ UNCHANGED main_vars
    /\ UNCHANGED <<r0, r0_sum, cal_i, readings, raw_alcohol, mock_readings,
                   reading_index, pushed, cal_runs, cal_at, cal_samples>>

WarmUpLoop ==
    /\ pc = "warm_loop"
    /\ IF warm_i < WARM_UP_TIME
       THEN /\ display' = Dots(warm_i)
            /\ io_kind' = "warm_up"
            /\ io_state' = state
            /\ warm_i' = warm_i + 1
            /\ sleep(SleepWarm)
            /\ pc' = pc
       ELSE /\ pc' = "calibrate"
            /\ no_sleep
            /\ UNCHANGED <<display, io_kind, io_state, warm_i>>
    /\ UNCHANGED <<ret, button, merged>>
    /\ UNCHANGED main_vars
    /\ UNCHANGED <<r0, r0_sum, cal_i, readings, raw_alcohol, mock_readings,
                   reading_index, pushed, cal_runs, cal_at, cal_samples>>

----------------------------------------------------------------------------
(* MQ3Sensor.calibrate (lines 87-98) *)

\* mutant: calibrate() starts by clearing the window
CalibrateBegin_clears ==
    /\ pc = "calibrate"
    /\ display' = Message("Calibrating...")
    /\ io_kind' = "calibrate"
    /\ io_state' = state
    /\ r0_sum' = 0
    /\ cal_i' = 0
    /\ cal_at' = Len(pushed)
    /\ cal_samples' = <<>>
    /\ readings' = <<>>
    /\ pc' = "cal_loop"
    /\ no_sleep
    /\ UNCHANGED <<ret, button, merged>>
    /\ UNCHANGED main_vars
    /\ UNCHANGED <<r0, warm_i, raw_alcohol, mock_readings, reading_index, pushed,
                   cal_runs>>

\* mutant: calibrate() does not announce itself on the display
CalibrateBegin_silent ==
    /\ pc = "calibrate"
    /\ io_kind' = "calibrate"
    /\ io_state' = state
    /\ r0_sum' = 0
    /\ cal_i' = 0
    /\ cal_at' = Len(pushed)
    /\ cal_samples' = <<>>
    /\ pc' = "cal_loop"
    /\ no_sleep
    /\ UNCHANGED <<ret, button, merged, display>>
    /\ UNCHANGED main_vars
    /\ UNCHANGED <<r0, warm_i, readings, raw_alcohol, mock_readings,
                   reading_index, pushed, cal_runs>>

CalibrateBegin ==
    /\ pc = "calibrate"
    /\ display' = Message("Calibrating...")
    /\ io_kind' = "calibrate"
    /\ io_state' = state
    /\ r0_sum' = 0
    /\ cal_i' = 0
    /\ cal_at' = Len(pushed)
    /\ cal_samples' = <<>>
    /\ pc' = "cal_loop"
    /\ no_sleep
    /\ UNCHANGED <<ret, button, merged>>
    /\ UNCHANGED main_vars
    /\ UNCHANGED <<r0, warm_i, readings, raw_alcohol, mock_readings,
                   reading_index, pushed, cal_runs>>

\* where calibrate() returns to
calibrate_return(who) ==
    CASE who = "toggle"      -> "toggled"
      [] who = "recalibrate" -> "recalibrated"
      [] OTHER               -> "idle"

CalibrateLoop ==
    /\ pc = "cal_loop"
    /\ IF cal_i < NUM_CALIBRATION_READINGS
       THEN /\ reading_index' = next_index
            /\ cal_samples' = Append(cal_samples, mq3_pin_read)
            /\ io_kind' = "calibrate"
            /\ io_state' = state
            /\ IF rs_faults(mq3_pin_read)
               THEN /\ pc' = "fault"
                    /\ no_sleep
                    /\ UNCHANGED <<r0_sum, cal_i>>
               ELSE /\ r0_sum' = r0_sum + ratioed(calculate_rs(mq3_pin_read))
                    /\ cal_i' = cal_i + 1
                    /\ sleep(SleepSample)
                    /\ pc' = pc
            /\ UNCHANGED <<r0, display, cal_runs>>
       ELSE /\ r0' = mean_r0(r0_sum)
            /\ display' = Message("Calibration done")
            /\ io_kind' = "calibrate"
            /\ io_state' = state
            /\ cal_runs' = cal_runs + 1
            /\ sleep(SleepCalDone)
            /\ pc' = calibrate_return(ret)
            /\ UNCHANGED <<reading_index, r0_sum, cal_i, cal_samples>>
    /\ UNCHANGED <<ret, button, merged>>
    /\ UNCHANGED main_vars
    /\ UNCHANGED <<warm_i, readings, raw_alcohol, mock_readings, pushed, cal_at>>

----------------------------------------------------------------------------
(* a driver that calls the sensor's methods in any order, as                *)
(* src/test_sensor.py does: sensor.r0 = 1000, get_smoothed_reading(),       *)
(* calibrate(); and warm_up(), which main calls                             *)

TEST_R0 == 1000

\* the tests set r0 on the sensor they have just constructed
DriveSetR0 ==
    /\ pc = "idle"
    /\ pushed = <<>> /\ cal_runs = 0
    /\ r0 # TEST_R0 * R0Scale
    /\ r0' = TEST_R0 * R0Scale
    /\ UNCHANGED <<now, pc, ret, button, phys_hold, merged>>
    /\ UNCHANGED <<main_vars, io_vars>>
    /\ UNCHANGED <<r0_sum, cal_i, warm_i, readings, raw_alcohol, mock_readings,
                   reading_index, pushed, cal_runs, cal_at, cal_samples>>

DriveGetSmoothedReading ==
    /\ pc = "idle"
    /\ Len(pushed) < MaxPushes
    /\ get_smoothed_reading("idle")
    /\ UNCHANGED <<now, ret, button, phys_hold, merged>>
    /\ UNCHANGED <<main_vars, io_vars>>

DriveCalibrate ==
    /\ pc = "idle"
    /\ cal_runs < MaxCalRuns
    /\ pc' = "calibrate"
    /\ UNCHANGED <<now, ret, button, phys_hold, merged>>
    /\ UNCHANGED <<main_vars, sensor_vars, io_vars>>

DriveWarmUp ==
    /\ pc = "idle"
    /\ cal_runs < MaxCalRuns
    /\ pc' = "warm_up"
    /\ UNCHANGED <<now, ret, button, phys_hold, merged>>
    /\ UNCHANGED <<main_vars, sensor_vars, io_vars>>

----------------------------------------------------------------------------
(* construction: Hardware.__init__, MQ3Sensor.__init__, main lines 163-167  *)

Repeat(v, n) == [i \in 1..n |-> v]

\* what the analog source may deliver in a run of the control loop
MainSources ==
    { <<1365>>, <<4095>>, <<0>>,
      Repeat(1365, NUM_CALIBRATION_READINGS) \o <<2730, 4000>>,
      Repeat(1365, NUM_CALIBRATION_READINGS) \o <<0>>,
      Repeat(1365, NUM_CALIBRATION_READINGS) \o <<4095>>,
      Repeat(MAX_ADC, NUM_CALIBRATION_READINGS) \o <<0>> }

\* mock_readings of the tests, and sources with the samples 0 and MAX_ADC
DriverSources ==
    { <<1000, 2000, 3000, 4000>>,
      <<1000, 2000, 3000, 4000, 3000, 2000, 1000>>,
      <<2000, 3000, 4000>>,
      <<2000>>,
      <<4095>>,
      <<4095, 4095, 4095, 4000, 4095>>,
      <<1000, 2000, 3000, 0>> }

InitCommon ==
    /\ now = StartTime
    /\ state = OFF
    /\ button_press_time = 0
    /\ last_reading_time = 0
    /\ button_down = FALSE
    /\ press_duration = 0
    /\ r0 = R0Scale
    /\ r0_sum = 0
    /\ cal_i = 0
    /\ warm_i = 0
    /\ readings = <<>>
    /\ raw_alcohol = 0
    /\ display = Blank
    /\ reading_index = 1
    /\ pushed = <<>>
    /\ io_kind = "none"
    /\ io_state = OFF
    /\ button = FALSE
    /\ phys_hold = 0
    /\ merged = FALSE
    /\ press_toggles = 0
    /\ press_cals = 0
    /\ cal_runs = 0
    /\ cal_at = 0
    /\ cal_samples = <<>>
    /\ press_state = OFF
    /\ hold_start = 0

Init ==
    /\ InitCommon
    /\ pc = "poll"
    /\ ret = "toggle"
    /\ mock_readings \in MainSources

Next ==
    \/ ButtonDown
    \/ ButtonUp
    \/ Poll
    \/ Toggled
    \/ Recalibrated
    \/ Sample
    \/ WarmUpBegin
    \/ WarmUpLoop
    \/ CalibrateBegin
    \/ CalibrateLoop

Spec == Init /\ [][Next]_vars

InitSensor ==
    /\ InitCommon
    /\ pc = "idle"
    /\ ret = "driver"
    /\ mock_readings \in DriverSources

NextSensor ==
    \/ DriveSetR0
    \/ DriveGetSmoothedReading
    \/ DriveCalibrate
    \/ DriveWarmUp
    \/ WarmUpBegin
    \/ WarmUpLoop
    \/ CalibrateBegin
    \/ CalibrateLoop

SpecSensor == InitSensor /\ [][NextSensor]_vars

----------------------------------------------------------------------------
(* properties *)

LastN(s, n) == IF Len(s) <= n THEN s ELSE SubSeq(s, Len(s) - n + 1, Len(s))

Mean(s) == Sum(s) \div Len(s)

\* the last calibrate() run has completed and r0 holds its result
CalDone == cal_runs > 0 /\ pc # "cal_loop"

(* C1: one press of the button, held for LONG_PRESS_TIME or longer and then  *)
(* released, toggles the state between OFF and ON exactly once: the sleep    *)
(* after the toggle keeps the same press from toggling again.                *)
C1_OneTogglePerPress == ~merged => press_toggles <= 1

(* C2: a press made while the state is ON and held for less than             *)
(* LONG_PRESS_TIME never turns the device OFF: a toggle to OFF needs a press *)
(* that was down for LONG_PRESS_TIME.                                        *)
C2_ShortPressNeverOff ==
    (pc = "toggled" /\ state = OFF /\ press_state = ON /\ ~merged)
        => phys_hold >= HoldCap

(* C3: the recalibration of a short press starts only on the poll that sees  *)
(* the button released, never on a poll that sees it still held.             *)
C3_CalibrateOnlyOnRelease ==
    (pc = "calibrate" /\ ret = "recalibrate") => ~button_down

(* C4, as stated: every read of the analog source and every write to the     *)
(* display happens while state = ON.                                         *)
C4_IoOnlyWhileOn == io_kind # "none" => io_state = ON

(* C4, amended: the sampling tick reads and displays only while state = ON;  *)
(* while CALIBRATING only calibrate() reads and writes, and while OFF only   *)
(* the toggle message is written.                                            *)
C4_TickOnlyWhileOn ==
    /\ io_kind = "tick" => io_state = ON
    /\ io_state = CALIBRATING => io_kind = "calibrate"
    /\ io_state = OFF => io_kind \in {"none", "toggle"}

C4_Witness == io_kind = "tick" /\ io_state = ON /\ display.text = "g/mL"

(* C5: whenever the loop is about to poll the button, the state is OFF or    *)
(* ON: CALIBRATING does not outlive the handling of the gesture.             *)
C5_NoCalibratingAtPoll == pc = "poll" => state \in {OFF, ON}

C5_Witness == pc = "poll" /\ state = ON /\ press_cals > 0 /\ cal_runs > 1

(* C6: the window holds at most max_readings values, in insertion order, and *)
(* they are the last min(k, max_readings) of the k values pushed so far.     *)
C6_Window ==
    /\ Len(readings) <= max_readings
    /\ readings = LastN(pushed, max_readings)

C6_Witness ==
    /\ Len(pushed) > max_readings
    /\ Len(readings) = max_readings
    /\ cal_runs > 0
    /\ readings[1] # readings[max_readings]

InSensorCall == pc \in {"warm_up", "warm_loop", "calibrate", "cal_loop"}

(* C8: no step of warm_up() or calibrate() changes the window.               *)
C8_CalibrationKeepsWindow == [][InSensorCall => (readings' = readings)]_vars

\* values pushed before a warm_up() are averaged with a value pushed after it
C8_Witness ==
    /\ pc = "idle"
    /\ warm_i = WARM_UP_TIME
    /\ cal_runs > 0
    /\ cal_at > 0
    /\ Len(pushed) > cal_at
    /\ readings = pushed
    /\ raw_alcohol = Mean(pushed)

(* C9, as stated: after a calibration that completes, r0 > 0.                *)
C9_R0Positive == CalDone => r0 > 0

(* C9, amended: after a calibration that completes, r0 >= 0, and r0 > 0      *)
(* exactly when one of the run's samples is below MAX_ADC.                   *)
C9_R0NonNegative ==
    CalDone =>
        /\ r0 >= 0
        /\ r0 > 0 <=> \E i \in 1..Len(cal_samples) : cal_samples[i] < MAX_ADC

C9_Witness ==
    /\ CalDone
    /\ r0 > 0
    /\ \E i \in 1..Len(cal_samples) : cal_samples[i] = MAX_ADC
    /\ Len(cal_samples) = NUM_CALIBRATION_READINGS

(* C10: calibrate() runs to completion on every sequence of samples in       *)
(* 0..MAX_ADC, the sample 0 included: no read of calibrate() faults.         *)
C10_CalibrateCompletes == ~(pc = "fault" /\ io_kind = "calibrate")

(* C11: a sampling tick that reads the raw sample 0 does not end the control *)
(* loop: the tick is an error outcome and the loop goes on to the next poll. *)
C11_TickSurvivesZero == ~(pc = "fault" /\ io_kind = "tick" /\ last_read = 0)

(* C12: while r0 = 0, read_raw_value_of_alcohol returns 0 on every sample in *)
(* 0..MAX_ADC: a tick taken with r0 = 0 does not fault and pushes 0.         *)
C12_GuardReturnsZero ==
    (io_kind = "tick" /\ r0 = 0) =>
        (pc # "fault" /\ pushed # <<>> /\ pushed[Len(pushed)] = 0)

\* the sum of 1000 * (4095 - s) / s over the samples, in 1/Scale ohm
RECURSIVE SumOfResistances(_)
SumOfResistances(samples) ==
    IF samples = <<>> THEN 0
    ELSE (Scale * LOAD_OHMS * (MAX_ADC - Head(samples))) \div Head(samples)
         + SumOfResistances(Tail(samples))

\* the last calibrate() run went through all its iterations and assigned r0
CalComplete ==
    cal_runs > 0 /\ cal_i = NUM_CALIBRATION_READINGS /\ pc \notin {"calibrate", "cal_loop"}

CalibrateEnters == pc = "calibrate" /\ pc' # pc

CalibrateInside == pc = "cal_loop"

CalibrateLeaves == pc = "cal_loop" /\ pc' \notin {"cal_loop", "fault"}

(* C14: every calibrate() run writes "Calibrating..." to the display before  *)
(* it reads its first sample and "Calibration done" after it has assigned    *)
(* r0, and no other message is written between the two.                      *)
C14_CalibrationMessages ==
    [][/\ (CalibrateEnters =>
            /\ display' = Message("Calibrating...")
            /\ reading_index' = reading_index
            /\ cal_samples' = <<>>)
       /\ (CalibrateInside => display = Message("Calibrating..."))
       /\ ((CalibrateInside /\ ~CalibrateLeaves) => (display' = display /\ r0' = r0))
       /\ (CalibrateLeaves =>
            /\ display' = Message("Calibration done")
            /\ Len(cal_samples) = NUM_CALIBRATION_READINGS
            /\ r0' = SumOfResistances(cal_samples))]_vars

C14_Witness ==
    /\ pc = "idle"
    /\ cal_runs = MaxCalRuns
    /\ display = Message("Calibration done")
    /\ Len(cal_samples) = NUM_CALIBRATION_READINGS
    /\ r0 # R0Scale

\* a step of the loop that calls check_button
Polls == pc = "poll" /\ pc' # pc

(* C15: check_button returns the elapsed hold time on every poll that finds  *)
(* the button held, the final held duration on the one poll that finds it    *)
(* released, and 0 on every later poll until the next press; the press time  *)
(* is reset to 0 on release.                                                 *)
C15_HoldDuration ==
    [][Polls =>
        /\ press_duration' = IF button THEN Time(now) - hold_start'
                              ELSE IF button_down THEN Time(now) - hold_start
                              ELSE 0
        /\ (~button => button_press_time' = 0)]_vars

\* a step of the loop that calls get_smoothed_reading: a value is pushed, or
\* the read faults
Ticks == pushed' # pushed \/ (pc' = "fault" /\ pc \notin {"fault", "cal_loop"})

(* C16: a sampling tick happens only at the end of a poll cycle whose        *)
(* gesture handling left state = ON; it reads one sample and pushes one      *)
(* value; it comes at least reading_interval of clock time after the tick    *)
(* before it, and last_reading_time is the clock time of the last tick.      *)
C16_SamplingCadence ==
    [][/\ (Ticks =>
            /\ pc = "sample" /\ state = ON /\ state' = ON
            /\ reading_index' = next_index
            /\ (pc' # "fault" =>
                   /\ Len(pushed') = Len(pushed) + 1
                   /\ Time(now) - last_reading_time >= reading_interval
                   /\ last_reading_time' = Time(now)))
       /\ (last_reading_time' # last_reading_time => Ticks)]_vars

C16_Witness ==
    /\ pc = "poll"
    /\ io_kind = "tick"
    /\ Len(pushed) >= 2
    /\ press_cals > 0
    /\ last_reading_time = Time(now)

(* C17: r0 is 1.0 until the first calibrate() run completes, and it changes  *)
(* only in the step that ends a calibrate() run: polls, toggles, sampling    *)
(* ticks and conversions leave it unchanged.                                 *)
C17_R0OnlyByCalibrate ==
    /\ [](cal_runs = 0 => r0 = R0Scale)
    /\ [][r0' # r0 =>
            /\ pc = "cal_loop"
            /\ cal_i = NUM_CALIBRATION_READINGS
            /\ cal_runs' = cal_runs + 1]_vars
    /\ [][(Polls \/ Ticks \/ pc \in {"toggled", "recalibrated", "sample"})
            => r0' = r0]_vars

\* calibrated, sampled and switched OFF again: r0 is still the calibrated one
C17_Witness ==
    /\ state = OFF
    /\ pc = "poll"
    /\ display = Message("OFF")
    /\ cal_runs > 0
    /\ pushed # <<>>
    /\ r0 = SumOfResistances(cal_samples)
    /\ r0 # R0Scale

\* the poll cycle in which a press shorter than LONG_PRESS_TIME is seen
\* while the state is OFF: the poll, and the rest of the cycle after it
ShortPressPollWhileOff ==
    Polls /\ state = OFF /\ press_duration' > 0 /\ press_duration' < LONG_PRESS_TIME

ShortPressCycleWhileOff ==
    pc = "sample" /\ state = OFF /\ press_duration > 0 /\ press_duration < LONG_PRESS_TIME

DisplaysOn == pc = "toggled" /\ state = ON /\ pc' # pc

(* C19: no value is pushed into the window before a calibrate() run has      *)
(* completed; on every OFF -> ON transition the warm-up and its calibration  *)
(* have completed when "ON" is displayed, and no sampling tick comes between *)
(* the transition and that message.                                          *)
C19_CalibratedBeforeMeasuring ==
    /\ [](pushed # <<>> => cal_runs > 0)
    /\ [][DisplaysOn =>
            /\ warm_i = WARM_UP_TIME
            /\ cal_i = NUM_CALIBRATION_READINGS
            /\ cal_runs > 0
            /\ r0 = SumOfResistances(cal_samples)
            /\ display = Message("Calibration done")
            /\ display' = Message("ON")
            /\ cal_at = Len(pushed)]_vars
    /\ [][Ticks => display.text \in {"ON", "g/mL", "Calibration done"}]_vars

\* the first tick after the first OFF -> ON transition
C19_Witness ==
    /\ pc = "poll"
    /\ state = ON
    /\ cal_runs = 1
    /\ Len(pushed) = 1
    /\ display.text = "g/mL"
    /\ press_toggles = 1

\* the analog source delivers samples in 1..MAX_ADC only
SamplesInRange ==
    \A i \in 1..Len(mock_readings) : mock_readings[i] \in 1..MAX_ADC

\* no sample has been read: the resistance of every sample that may come is
\* asked for here, once, since it depends on no state
NothingReadYet == pc = "idle" /\ pushed = <<>> /\ cal_samples = <<>>

(* C20: with samples in 1..MAX_ADC every resistance _calculate_rs computes   *)
(* is >= 0, so r0 and the sum calibrate() accumulates are never negative,    *)
(* and a completed calibration stores r0 = 0 only when all its samples are   *)
(* MAX_ADC.                                                                  *)
C20_R0NeverNegative ==
    SamplesInRange =>
        /\ \A i \in 1..Len(mock_readings) : calculate_rs(mock_readings[i]) >= 0
        /\ NothingReadYet => \A s \in 1..MAX_ADC : calculate_rs(s) >= 0
        /\ r0_sum >= 0
        /\ r0 >= 0
        /\ (CalComplete /\ r0 = 0) =>
               cal_samples = Repeat(MAX_ADC, NUM_CALIBRATION_READINGS)

\* a calibration of samples of which all but two are MAX_ADC
C20_Witness ==
    /\ SamplesInRange
    /\ CalComplete
    /\ r0 = 2 * calculate_rs(4000)
    /\ Cardinality({i \in 1..Len(cal_samples) : cal_samples[i] = MAX_ADC})
           = NUM_CALIBRATION_READINGS - 2

=============================================================================
